---- MODULE Spec2Model ----
(***************************************************************************)
(* firestore-send-email: the processQueue trigger of                      *)
(* functions/src/index.ts, modelled for one mail document.                 *)
(*                                                                         *)
(* The store holds one document.  Every write that changes it produces a  *)
(* change notification (a before/after snapshot pair); the trigger hands  *)
(* each notification to an invocation of processQueue, possibly more than *)
(* once.  Invocations interleave at their awaits on the store and on the  *)
(* mail transport.                                                         *)
(***************************************************************************)
EXTENDS Integers, Sequences, FiniteSets, TLC

\* ---------------------------------------------------------------- bounds
MaxInv == 3       \* invocations of processQueue in one behaviour
MaxDup == 1       \* notifications the trigger delivers a second time
MaxExt == 1       \* writes a user makes to the document after creating it
MaxTicks == 2     \* clock advances, each of one lease window
MaxChainInv == 6  \* invocations available to the chain that follows a creation

\* ------------------------------------------------------- program constants
LeaseMillis == 60000
NoTime == -1      \* a timestamp field that is null or absent
Null == "<null>"  \* a string field that is null or absent

LeaseExpiredMsg == "Message processing lease expired."
NoRecipientMsg == "Error: Failed to deliver email. Expected at least 1 recipient."
NoTemplateNameMsg == "Error: Template object is missing a 'name' parameter."
NoUsersCollectionMsg == "Error: Must specify a users collection to send using uids."
UnhandledPrefix == "Unhandled error occurred during processing"
InvalidFieldMsg(field) ==
  "Error: Invalid field \"" \o field \o "\". Expected an array of strings."
NoMessageMsg == "TypeError: Cannot convert undefined or null to object"

\* ------------------------------------------------------------- JS values
\* A recipient field of the document: undefined, a string, an array, or a
\* value of another type.  Array items are strings or values of another type.
Undef == [t |-> "undefined", s |-> "", a |-> <<>>]
Str(x) == [t |-> "string", s |-> x, a |-> <<>>]
Num(x) == [t |-> "number", s |-> x, a |-> <<>>]
Arr(items) == [t |-> "array", s |-> "", a |-> items]
IStr(x) == [t |-> "string", s |-> x]
INum(x) == [t |-> "number", s |-> x]

\* JavaScript truthiness of a field or of an array item.
Truthy(v) ==
  CASE v.t = "undefined" -> FALSE
    [] v.t = "string" -> v.s # ""
    [] v.t = "number" -> v.s # "0"
    [] OTHER -> TRUE

RECURSIVE FindNonString(_)
\* Array.prototype.find(item => typeof item !== "string"): the first such
\* item, or undefined.
FindNonString(items) ==
  IF items = <<>> THEN [t |-> "undefined", s |-> ""]
  ELSE IF Head(items).t # "string" THEN Head(items)
  ELSE FindNonString(Tail(items))

\* validateFieldArray: TRUE when it throws.
validateFieldArrayThrows(array) ==
  IF array.t # "array" THEN TRUE
  ELSE Truthy(FindNonString(array.a))

\* ------------------------------------------------------ recipient directory
\* The users collection: u1 and u3 have an email; u2 is a document without
\* one and any other uid has no document (both resolve to no email).
UserEmail(uid) ==
  CASE uid = "u1" -> "u1@x.com"
    [] uid = "u3" -> "u3@x.com"
    [] OTHER -> ""

RECURSIVE Dedup(_, _)
\* The keys of toFetch, in insertion order: each uid once.
Dedup(items, seen) ==
  IF items = <<>> THEN <<>>
  ELSE IF Head(items).s \in seen THEN Dedup(Tail(items), seen)
  ELSE <<Head(items).s>> \o Dedup(Tail(items), seen \cup {Head(items).s})

RECURSIVE ResolveUidsOnce(_)
\* Mutant of ResolveUids: the emails are taken from the keys of toFetch, each
\* uid once.
ResolveUidsOnce(items) ==
  IF items = <<>> THEN <<>>
  ELSE LET rest == ResolveUidsOnce(
                     SelectSeq(Tail(items), LAMBDA x : x.s # Head(items).s))
       IN IF UserEmail(Head(items).s) # ""
          THEN <<IStr(UserEmail(Head(items).s))>> \o rest
          ELSE rest

RECURSIVE ResolveUids(_)
\* payload.xUids.forEach: the email of each uid that has one, in uid order.
ResolveUids(items) ==
  IF items = <<>> THEN <<>>
  ELSE IF UserEmail(Head(items).s) # ""
       THEN <<IStr(UserEmail(Head(items).s))>> \o ResolveUids(Tail(items))
       ELSE ResolveUids(Tail(items))

\* ---------------------------------------------------------- preparePayload
\* One of to / cc / bcc after lines 119-138: the list, or the field's throw.
Literal(v, field) ==
  IF v.t = "string" THEN [throws |-> FALSE, list |-> <<IStr(v.s)>>]
  ELSE IF Truthy(v)
       THEN IF validateFieldArrayThrows(v)
            THEN [throws |-> TRUE, list |-> <<>>]
            ELSE [throws |-> FALSE, list |-> v.a]
       ELSE [throws |-> FALSE, list |-> <<>>]

\* A uid field, lines 154-167: its uids (none when the field is falsy).
UidItems(v) == IF Truthy(v) THEN v.a ELSE <<>>

Thrown(msg) ==
  [ok |-> FALSE, err |-> msg, to |-> <<>>, cc |-> <<>>, bcc |-> <<>>,
   hasMessage |-> FALSE, attachments |-> <<>>, lookup |-> <<>>, queries |-> 0]

\* The template merge of lines 97-113: message present or not, and its
\* attachments.  rendered is what templates.render returned.
MergeTemplate(payload, cfg, rendered) ==
  IF cfg.templates /\ payload.template.present
  THEN [hasMessage |-> TRUE,
        attachments |->
          IF rendered.hasAttachments THEN rendered.attachments
          ELSE IF payload.message.present THEN payload.message.attachments
          ELSE <<>>]
  ELSE [hasMessage |-> payload.message.present,
        attachments |-> payload.message.attachments]

\* preparePayload(payload): the prepared payload, or the error thrown.
\* ext holds the outcomes of the external calls it awaits: templates.render
\* (renderOk, rendered) and db.getAll (dirOk).
preparePayload(payload, cfg, ext) ==
  LET msg == MergeTemplate(payload, cfg, ext.rendered)
      to == Literal(payload.to, "to")
      cc == Literal(payload.cc, "cc")
      bcc == Literal(payload.bcc, "bcc")
      uids == UidItems(payload.toUids) \o UidItems(payload.ccUids)
                \o UidItems(payload.bccUids)
  IN
  IF cfg.templates /\ payload.template.present /\ payload.template.name = ""
    THEN Thrown(NoTemplateNameMsg)
  ELSE IF cfg.templates /\ payload.template.present /\ ~ext.renderOk
    THEN Thrown("Error: template render failed")
  ELSE IF to.throws THEN Thrown(InvalidFieldMsg("to"))
  ELSE IF cc.throws THEN Thrown(InvalidFieldMsg("cc"))
  ELSE IF bcc.throws THEN Thrown(InvalidFieldMsg("bcc"))
  ELSE IF ~Truthy(payload.toUids) /\ ~Truthy(payload.ccUids)
          /\ ~Truthy(payload.bccUids)
    THEN [ok |-> TRUE, err |-> Null, to |-> to.list, cc |-> cc.list,
          bcc |-> bcc.list, hasMessage |-> msg.hasMessage,
          attachments |-> msg.attachments, lookup |-> <<>>, queries |-> 0]
  ELSE IF ~cfg.usersCollection THEN Thrown(NoUsersCollectionMsg)
  ELSE IF Truthy(payload.toUids) /\ validateFieldArrayThrows(payload.toUids)
    THEN Thrown(InvalidFieldMsg("toUids"))
  ELSE IF Truthy(payload.ccUids) /\ validateFieldArrayThrows(payload.ccUids)
    THEN Thrown(InvalidFieldMsg("ccUids"))
  ELSE IF Truthy(payload.bccUids) /\ validateFieldArrayThrows(payload.bccUids)
    THEN Thrown(InvalidFieldMsg("bccUids"))
  ELSE IF ~ext.dirOk THEN Thrown("Error: users lookup failed")
  ELSE [ok |-> TRUE, err |-> Null,
        to |-> to.list \o ResolveUids(UidItems(payload.toUids)),
        cc |-> cc.list \o ResolveUids(UidItems(payload.ccUids)),
        bcc |-> bcc.list \o ResolveUids(UidItems(payload.bccUids)),
        hasMessage |-> msg.hasMessage, attachments |-> msg.attachments,
        lookup |-> Dedup(uids, {}), queries |-> 1]

\* ------------------------------------------------------------------ inputs
NoTemplate == [present |-> FALSE, name |-> ""]
NoMessage == [present |-> FALSE, attachments |-> <<>>]
Message == [present |-> TRUE, attachments |-> <<"A">>]
BasePayload ==
  [template |-> NoTemplate, message |-> Message, to |-> Undef, cc |-> Undef,
   bcc |-> Undef, toUids |-> Undef, ccUids |-> Undef, bccUids |-> Undef]

\* The mail documents a user creates.
Payloads ==
  << [BasePayload EXCEPT !.to = Str("a@x.com")],
     [BasePayload EXCEPT !.toUids = Arr(<<IStr("u2")>>)],
     [BasePayload EXCEPT !.to = Str("a@x.com"),
                         !.template = [present |-> TRUE, name |-> ""]],
     [BasePayload EXCEPT !.to = Arr(<<IStr("b@x.com")>>),
                         !.ccUids = Arr(<<IStr("u1"), IStr("u2"), IStr("u1")>>)],
     [BasePayload EXCEPT !.to = Str("a@x.com"), !.message = NoMessage],
     [BasePayload EXCEPT !.to = Arr(<<IStr("a@x.com"), INum("0")>>)] >>

\* config: whether a templates collection and a users collection are set.
Configs ==
  { [templates |-> TRUE, usersCollection |-> TRUE],
    [templates |-> FALSE, usersCollection |-> FALSE] }

NoRender == [hasAttachments |-> FALSE, attachments |-> <<>>]
\* What the external calls of one delivery attempt do: templates.render,
\* db.getAll and transport.sendMail ("full" and "bare" are results with every
\* field and with none, "throw" a rejected send).
Externals ==
  { [renderOk |-> TRUE, rendered |-> NoRender, dirOk |-> TRUE, send |-> "full"],
    [renderOk |-> TRUE, rendered |-> NoRender, dirOk |-> TRUE, send |-> "bare"],
    [renderOk |-> TRUE, rendered |-> NoRender, dirOk |-> TRUE, send |-> "throw"],
    [renderOk |-> FALSE, rendered |-> NoRender, dirOk |-> TRUE, send |-> "full"],
    [renderOk |-> TRUE, rendered |-> NoRender, dirOk |-> FALSE, send |-> "full"] }

\* ---------------------------------------------------------------- document
NoInfo ==
  [present |-> FALSE, messageId |-> Null, accepted |-> <<>>, rejected |-> <<>>,
   pending |-> <<>>, response |-> Null]

\* A document without a delivery field (exists says whether it is there).
BareDoc(exists) ==
  [exists |-> exists, hasDelivery |-> FALSE, state |-> Null, attempts |-> 0,
   error |-> Null, leaseExpireTime |-> NoTime, startTime |-> NoTime,
   endTime |-> NoTime, info |-> NoInfo, topError |-> Null, rev |-> 0]

NoDoc == BareDoc(FALSE)

\* The documents a user creates: without a delivery field, or with one
\* written by hand (a state, no lease).
InitialDocs ==
  { BareDoc(TRUE),
    [BareDoc(TRUE) EXCEPT !.hasDelivery = TRUE, !.state = "PROCESSING",
                          !.attempts = 2, !.error = "old error"] }

\* ----------------------------------------------------------------- state
VARIABLES
  doc,        \* the mail document in the store
  payload,    \* its mail fields (to, cc, bcc, ..., message, template)
  config,     \* the extension's configuration
  now,        \* the clock, in milliseconds
  notifs,     \* change notifications not yet handed to an invocation
  inv,        \* the invocations of processQueue
  started,    \* how many invocations have started
  dups,       \* how many notifications were delivered twice
  exts,       \* how many writes a user made after creating the document
  failing,    \* the event whose emission fails ("none": the channel works)
  resolved    \* what preparePayload, applied on its own, returned or threw

vars ==
  <<doc, payload, config, now, notifs, inv, started, dups, exts, failing,
    resolved>>

Invs == 1..MaxInv

\* Entries of an invocation's trace: the events it recorded, the
\* transactions it ran and its call of transport.sendMail, in order.
Ev(name, arg) == [k |-> "event", n |-> name, arg |-> arg]
Tx(name, state) == [k |-> "tx", n |-> name, arg |-> state]
TxFail(name) == [k |-> "txfail", n |-> name, arg |-> Null]
SendMail == [k |-> "send", n |-> "sendMail", arg |-> Null]

\* An event whose emission failed: the awaited events.record...Event call
\* rejected.
EvFail(name) == [k |-> "evfail", n |-> name, arg |-> Null]

\* The events of the channel (events.recordStartEvent, ...).
EventNames ==
  {"start", "pending", "processing", "retry", "success", "error", "complete"}

\* Nothing prepared yet.
NotPrepared == Thrown(Null)

NoUpdate == [state |-> Null, error |-> Null, info |-> NoInfo]
Idle == [pc |-> "idle", upd |-> NoUpdate, tr |-> <<>>]

Init ==
  /\ doc = NoDoc
  /\ payload \in {Payloads[k] : k \in 1..Len(Payloads)}
  /\ config \in Configs
  /\ now = 0
  /\ notifs = {}
  /\ inv = [i \in Invs |-> Idle]
  /\ started = 0
  /\ dups = 0
  /\ exts = 0
  /\ failing = "none"
  /\ resolved = NotPrepared

\* ------------------------------------------------------------ the store
\* Mutant of processCreateUpdate: only the named fields are written, the
\* rest of an existing delivery field survives.
processCreateMerges(d, t) ==
  [d EXCEPT !.hasDelivery = TRUE, !.state = "PENDING", !.error = Null,
            !.startTime = t]

\* transaction.update of processCreate (lines 82-89): the delivery field is
\* replaced as a whole; t is the server's time.
processCreateUpdate(d, t) ==
  [d EXCEPT !.hasDelivery = TRUE, !.state = "PENDING", !.attempts = 0,
            !.error = Null, !.startTime = t, !.leaseExpireTime = NoTime,
            !.endTime = NoTime, !.info = NoInfo]

\* Mutant of leaseUpdate: the state is written without the lease.
leaseUpdateStateOnly(d, t) ==
  [d EXCEPT !.hasDelivery = TRUE, !.state = "PROCESSING"]

\* transaction.update of lines 347-352: two fields of delivery.
leaseUpdate(d, t) ==
  [d EXCEPT !.hasDelivery = TRUE, !.state = "PROCESSING",
            !.leaseExpireTime = t + LeaseMillis]

\* Mutant of leaseExpiredUpdate: an expired lease puts the document back
\* in the queue.
leaseExpiredRetries(d) ==
  [d EXCEPT !.hasDelivery = TRUE, !.state = "RETRY",
            !.topError = LeaseExpiredMsg, !.error = LeaseExpiredMsg]

\* transaction.update of lines 327-333: delivery.state, delivery.error and
\* the document's own error field.
leaseExpiredUpdate(d) ==
  [d EXCEPT !.hasDelivery = TRUE, !.state = "ERROR",
            !.topError = LeaseExpiredMsg, !.error = LeaseExpiredMsg]

\* Mutant of deliverUpdate: a failed attempt puts the document back in the
\* queue.
deliverUpdateRetries(d, upd, t) ==
  [d EXCEPT !.hasDelivery = TRUE, !.attempts = @ + 1, !.endTime = t,
            !.error = upd.error, !.leaseExpireTime = NoTime,
            !.state = IF upd.state = "ERROR" THEN "RETRY" ELSE upd.state,
            !.info = IF upd.state = "SUCCESS" THEN upd.info ELSE @]

\* Mutant of deliverUpdate: a failed attempt is not counted.
deliverUpdateCountsSuccess(d, upd, t) ==
  [d EXCEPT !.hasDelivery = TRUE,
            !.attempts = IF upd.state = "SUCCESS" THEN @ + 1 ELSE @,
            !.endTime = t, !.error = upd.error, !.leaseExpireTime = NoTime,
            !.state = upd.state,
            !.info = IF upd.state = "SUCCESS" THEN upd.info ELSE @]

\* transaction.update of deliver (lines 240-245, 274-275, 278-279, 285):
\* attempts is incremented in the store; info is written on success only.
deliverUpdate(d, upd, t) ==
  [d EXCEPT !.hasDelivery = TRUE, !.attempts = @ + 1, !.endTime = t,
            !.error = upd.error, !.leaseExpireTime = NoTime,
            !.state = upd.state,
            !.info = IF upd.state = "SUCCESS" THEN upd.info ELSE @]

\* Mutant of LeaseExpired: the lease counts as expired at its expiry time.
LeaseExpiredAtExpiry(lease, t) == lease <= t

\* The lease test of line 319.
LeaseExpired(lease, t) == lease < t

\* A committed write: the document changes and, when it did change, the
\* trigger gets a notification with the snapshots before and after.
Commit(newdoc, pending) ==
  /\ doc' = newdoc
  /\ notifs' = IF newdoc = doc THEN pending
               ELSE pending \cup {[before |-> doc, after |-> newdoc]}

\* ------------------------------------------------------ the environment
\* A user adds the mail document to the collection.
Create(d) ==
  /\ ~doc.exists /\ notifs = {} /\ started = 0
  /\ Commit(d, notifs)
  /\ UNCHANGED <<payload, config, failing, resolved, now, inv, started, dups,
                 exts>>

\* A user asks for another attempt by writing delivery.state = "RETRY".
ExtRetry ==
  /\ doc.exists /\ doc.hasDelivery /\ doc.state = "ERROR"
  /\ exts < MaxExt
  /\ exts' = exts + 1
  /\ Commit([doc EXCEPT !.state = "RETRY"], notifs)
  /\ UNCHANGED <<payload, config, failing, resolved, now, inv, started, dups>>

\* A user edits the document (a field other than delivery).
ExtTouch ==
  /\ doc.exists
  /\ exts < MaxExt
  /\ exts' = exts + 1
  /\ Commit([doc EXCEPT !.rev = @ + 1], notifs)
  /\ UNCHANGED <<payload, config, failing, resolved, now, inv, started, dups>>

\* A user deletes the document.
Delete ==
  /\ doc.exists
  /\ Commit(NoDoc, notifs)
  /\ UNCHANGED <<payload, config, failing, resolved, now, inv, started, dups,
                 exts>>

\* Time passes.
Tick ==
  /\ now < MaxTicks * LeaseMillis
  /\ now' = now + LeaseMillis
  /\ UNCHANGED <<doc, payload, config, failing, resolved, notifs, inv,
                 started, dups, exts>>

\* ----------------------------------------------------------- processQueue
\* Mutant of Route: the switch has no case "PENDING".
RouteWithoutPending(change) ==
  IF ~change.after.exists THEN "null"
  ELSE IF ~change.before.exists THEN "create"
  ELSE IF ~change.after.hasDelivery THEN "null"
  ELSE IF change.after.state \in {"SUCCESS", "ERROR"} THEN "terminal"
  ELSE IF change.after.state = "PROCESSING" THEN "processing"
  ELSE IF change.after.state = "RETRY" THEN "attempt"
  ELSE "null"

\* Which branch of processWrite (lines 291-356) a change takes.
Route(change) ==
  IF ~change.after.exists THEN "null"
  ELSE IF ~change.before.exists THEN "create"
  ELSE IF ~change.after.hasDelivery THEN "null"
  ELSE IF change.after.state \in {"SUCCESS", "ERROR"} THEN "terminal"
  ELSE IF change.after.state = "PROCESSING" THEN "processing"
  ELSE IF change.after.state \in {"PENDING", "RETRY"} THEN "attempt"
  ELSE "null"

\* The trigger hands notification n to invocation i; dup says that the
\* trigger will deliver n again.
Handed(i, n, dup) ==
  /\ inv[i].pc = "idle" /\ i = started + 1
  /\ n \in notifs
  /\ dup => dups < MaxDup
  /\ started' = started + 1
  /\ dups' = IF dup THEN dups + 1 ELSE dups
  /\ UNCHANGED <<payload, config, failing, resolved, now, exts>>

Rest(n, dup) == IF dup THEN notifs ELSE notifs \ {n}

\* An awaited events.record...Event call: the event is recorded, or the
\* call rejects.
Emits(tr, name, arg) ==
  IF failing = name THEN tr \o <<EvFail(name)>> ELSE tr \o <<Ev(name, arg)>>

RECURSIVE EmitAll(_, _)
\* Awaited emissions one after the other: the first that rejects ends them.
EmitAll(tr, evs) ==
  IF evs = <<>> THEN tr
  ELSE IF failing = Head(evs).n THEN tr \o <<EvFail(Head(evs).n)>>
  ELSE EmitAll(tr \o <<Ev(Head(evs).n, Head(evs).arg)>>, Tail(evs))

\* The last step of the trace threw (a rejected emission or transaction).
Threw(tr) == tr # <<>> /\ tr[Len(tr)].k \in {"evfail", "txfail"}

\* Lines 366-368: the start event, for a change without a before-snapshot.
StartTr(n) == IF ~n.before.exists THEN Emits(<<>>, "start", Null) ELSE <<>>

\* Mutant of Completed: processQueue returns without the complete event.
CompletedSilently(tr) == tr

\* Lines 383-385: processWrite returned.
Completed(tr) == Emits(tr, "complete", Null)

\* Mutant of Caught: the catch block does not return.
CaughtFallsThrough(tr) ==
  Emits(Emits(tr, "error", UnhandledPrefix), "complete", Null)

\* Lines 372-379: processWrite threw.
Caught(tr) == Emits(tr, "error", UnhandledPrefix)

Running(pc, upd, tr) == [pc |-> pc, upd |-> upd, tr |-> tr]

Finished(tr) == Running("done", NoUpdate, tr)

\* processQueue's promise rejected: an emission awaited outside the try
\* block (lines 367, 373, 383) rejected.
Rejects(tr) == tr # <<>> /\ tr[Len(tr)].k = "evfail"

\* processWrite returns null at once: a deleted document, no delivery
\* field, or a state the switch has no case for.
PQNull(i, n, dup) ==
  /\ Handed(i, n, dup)
  /\ Route(n) = "null"
  /\ inv' = [inv EXCEPT ![i] = Finished(Completed(StartTr(n)))]
  /\ notifs' = Rest(n, dup)
  /\ UNCHANGED doc

\* processCreate (lines 295-297, 79-92).
PQCreate(i, n, dup) ==
  /\ Handed(i, n, dup)
  /\ Route(n) = "create"
  /\ IF Threw(StartTr(n))
     THEN \* line 367 is outside the try block
          /\ doc' = doc /\ notifs' = Rest(n, dup)
          /\ inv' = [inv EXCEPT ![i] = Finished(StartTr(n))]
     ELSE IF doc.exists
     THEN /\ Commit(processCreateUpdate(doc, now), Rest(n, dup))
          /\ inv' = [inv EXCEPT ![i] = Finished(
                 Completed(StartTr(n) \o <<Tx("processCreate", "PENDING")>>))]
     ELSE /\ doc' = doc /\ notifs' = Rest(n, dup)
          /\ inv' = [inv EXCEPT ![i] = Finished(
                 Caught(StartTr(n) \o <<TxFail("processCreate")>>))]

\* Mutant of TerminalEvents: case "SUCCESS" ends with a break.
TerminalEventsNoFallthrough(n) ==
  IF n.after.state = "SUCCESS" THEN <<[n |-> "success", arg |-> Null]>>
  ELSE <<[n |-> "error", arg |-> n.after.error]>>

\* The events of case "SUCCESS" and case "ERROR" (lines 311-314).
TerminalEvents(n) ==
  (IF n.after.state = "SUCCESS" THEN <<[n |-> "success", arg |-> Null]>>
   ELSE <<>>)
  \o <<[n |-> "error", arg |-> n.after.error]>>

\* case "SUCCESS" and case "ERROR" (lines 311-315).
PQTerminal(i, n, dup) ==
  /\ Handed(i, n, dup)
  /\ Route(n) = "terminal"
  /\ LET tr == EmitAll(StartTr(n), TerminalEvents(n)) IN
     inv' = [inv EXCEPT ![i] =
               Finished(IF Threw(tr) THEN Caught(tr) ELSE Completed(tr))]
  /\ notifs' = Rest(n, dup)
  /\ UNCHANGED doc

\* case "PROCESSING" (lines 316-338).
PQProcessing(i, n, dup) ==
  /\ Handed(i, n, dup)
  /\ Route(n) = "processing"
  /\ LET tr == EmitAll(StartTr(n), <<[n |-> "processing", arg |-> Null]>>)
         tr2 == EmitAll(tr, <<[n |-> "error", arg |-> LeaseExpiredMsg]>>)
     IN
     IF Threw(tr)
     THEN /\ doc' = doc /\ notifs' = Rest(n, dup)
          /\ inv' = [inv EXCEPT ![i] = Finished(Caught(tr))]
     ELSE IF n.after.leaseExpireTime = NoTime
     THEN \* leaseExpireTime.toMillis() on a missing lease throws
          /\ doc' = doc /\ notifs' = Rest(n, dup)
          /\ inv' = [inv EXCEPT ![i] = Finished(Caught(tr))]
     ELSE IF LeaseExpired(n.after.leaseExpireTime, now)
     THEN IF Threw(tr2)
          THEN /\ doc' = doc /\ notifs' = Rest(n, dup)
               /\ inv' = [inv EXCEPT ![i] = Finished(Caught(tr2))]
          ELSE IF doc.exists
          THEN /\ Commit(leaseExpiredUpdate(doc), Rest(n, dup))
               /\ inv' = [inv EXCEPT ![i] = Finished(Completed(
                      tr2 \o <<Tx("leaseExpired", "ERROR")>>))]
          ELSE /\ doc' = doc /\ notifs' = Rest(n, dup)
               /\ inv' = [inv EXCEPT ![i] = Finished(Caught(
                      tr2 \o <<TxFail("leaseExpired")>>))]
     ELSE /\ doc' = doc /\ notifs' = Rest(n, dup)
          /\ inv' = [inv EXCEPT ![i] = Finished(Completed(tr))]

\* The events of case "PENDING" and case "RETRY" (lines 339-343).
AttemptEvents(n) ==
  (IF n.after.state = "PENDING" THEN <<[n |-> "pending", arg |-> Null]>>
   ELSE <<>>)
  \o <<[n |-> "retry", arg |-> Null]>>

\* case "PENDING" and case "RETRY" up to the call of deliver (lines 339-355).
PQAttempt(i, n, dup) ==
  /\ Handed(i, n, dup)
  /\ Route(n) = "attempt"
  /\ LET tr == EmitAll(StartTr(n), AttemptEvents(n)) IN
     IF Threw(tr)
     THEN /\ doc' = doc /\ notifs' = Rest(n, dup)
          /\ inv' = [inv EXCEPT ![i] = Finished(Caught(tr))]
     ELSE IF doc.exists
     THEN /\ Commit(leaseUpdate(doc, now), Rest(n, dup))
          /\ inv' = [inv EXCEPT ![i] = Running("deliver", NoUpdate,
                 tr \o <<Tx("lease", "PROCESSING")>>)]
     ELSE /\ doc' = doc /\ notifs' = Rest(n, dup)
          /\ inv' = [inv EXCEPT ![i] = Finished(
                 Caught(tr \o <<TxFail("lease")>>))]

\* transport.sendMail's result as deliver records it (lines 266-272).
Info(prepared, send) ==
  IF send = "full"
  THEN [present |-> TRUE, messageId |-> "m1",
        accepted |-> prepared.to \o prepared.cc \o prepared.bcc,
        rejected |-> <<>>, pending |-> <<>>, response |-> "250 OK"]
  ELSE [NoInfo EXCEPT !.present = TRUE]

\* deliver up to its transaction (lines 239-281): what the attempt did
\* (sent says whether transport.sendMail was called) and the update it made.
Attempt(p, cfg, ext) ==
  LET prepared == preparePayload(p, cfg, ext) IN
  IF ~prepared.ok
    THEN [sent |-> FALSE,
          upd |-> [state |-> "ERROR", error |-> prepared.err, info |-> NoInfo]]
  ELSE IF prepared.to = <<>> /\ prepared.cc = <<>> /\ prepared.bcc = <<>>
    THEN [sent |-> FALSE,
          upd |-> [state |-> "ERROR", error |-> NoRecipientMsg, info |-> NoInfo]]
  ELSE IF ~prepared.hasMessage
    THEN \* Object.assign(undefined, ...) throws before sendMail is called
         [sent |-> FALSE,
          upd |-> [state |-> "ERROR", error |-> NoMessageMsg, info |-> NoInfo]]
  ELSE IF ext.send = "throw"
    THEN [sent |-> TRUE,
          upd |-> [state |-> "ERROR", error |-> "Error: send failed",
                   info |-> NoInfo]]
  ELSE [sent |-> TRUE,
        upd |-> [state |-> "SUCCESS", error |-> Null,
                 info |-> Info(prepared, ext.send)]]

\* deliver: preparation and the send (lines 247-281).
Deliver(i, ext) ==
  /\ inv[i].pc = "deliver"
  /\ LET a == Attempt(payload, config, ext) IN
     inv' = [inv EXCEPT ![i].pc = "commit", ![i].upd = a.upd,
               ![i].tr = @ \o (IF a.sent THEN <<SendMail>> ELSE <<>>)]
  /\ UNCHANGED <<doc, payload, config, failing, resolved, now, notifs,
                 started, dups, exts>>

\* Mutant of DeliverTx: the update is applied once more before deliver
\* returns.
DeliverTxTwice(i) ==
  /\ inv[i].pc = "commit"
  /\ IF doc.exists
     THEN /\ Commit(deliverUpdate(doc, inv[i].upd, now), notifs)
          /\ inv' = IF \E j \in 1..Len(inv[i].tr) : inv[i].tr[j].n = "deliver"
                    THEN [inv EXCEPT ![i] = Finished(
                           Completed(@.tr \o <<Tx("deliver", @.upd.state)>>))]
                    ELSE [inv EXCEPT ![i].tr =
                           @ \o <<Tx("deliver", inv[i].upd.state)>>]
     ELSE /\ doc' = doc /\ notifs' = notifs
          /\ inv' = [inv EXCEPT ![i] = Finished(
                 Caught(@.tr \o <<TxFail("deliver")>>))]
  /\ UNCHANGED <<payload, config, failing, resolved, now, started, dups, exts>>

\* deliver: its transaction (lines 283-287), then the end of processQueue.
DeliverTx(i) ==
  /\ inv[i].pc = "commit"
  /\ IF doc.exists
     THEN /\ Commit(deliverUpdate(doc, inv[i].upd, now), notifs)
          /\ inv' = [inv EXCEPT ![i] = Finished(
                 Completed(@.tr \o <<Tx("deliver", @.upd.state)>>))]
     ELSE /\ doc' = doc /\ notifs' = notifs
          /\ inv' = [inv EXCEPT ![i] = Finished(
                 Caught(@.tr \o <<TxFail("deliver")>>))]
  /\ UNCHANGED <<payload, config, failing, resolved, now, started, dups, exts>>

Next ==
  \/ \E d \in InitialDocs : Create(d)
  \/ ExtRetry
  \/ ExtTouch
  \/ Delete
  \/ Tick
  \/ \E i \in Invs, n \in notifs, dup \in BOOLEAN : PQNull(i, n, dup)
  \/ \E i \in Invs, n \in notifs, dup \in BOOLEAN : PQCreate(i, n, dup)
  \/ \E i \in Invs, n \in notifs, dup \in BOOLEAN : PQTerminal(i, n, dup)
  \/ \E i \in Invs, n \in notifs, dup \in BOOLEAN : PQProcessing(i, n, dup)
  \/ \E i \in Invs, n \in notifs, dup \in BOOLEAN : PQAttempt(i, n, dup)
  \/ \E i \in Invs, ext \in Externals : Deliver(i, ext)
  \/ \E i \in Invs : DeliverTx(i)

Spec == Init /\ [][Next]_vars

\* The program for a mail with one literal recipient and a message, with a
\* trigger that hands over every notification and invocations that run on:
\* no invocation crashes and every awaited call returns or throws.
InitLive ==
  /\ doc = NoDoc
  /\ payload = Payloads[1]
  /\ config \in Configs
  /\ now = 0
  /\ notifs = {}
  /\ inv = [i \in Invs |-> Idle]
  /\ started = 0
  /\ dups = 0
  /\ exts = 0
  /\ failing = "none"
  /\ resolved = NotPrepared

Fairness ==
  /\ WF_vars(\E i \in Invs, n \in notifs, dup \in BOOLEAN : PQCreate(i, n, dup))
  /\ WF_vars(\E i \in Invs, n \in notifs, dup \in BOOLEAN : PQAttempt(i, n, dup))
  /\ WF_vars(\E i \in Invs, ext \in Externals : Deliver(i, ext))
  /\ WF_vars(\E i \in Invs : DeliverTx(i))

SpecLive == InitLive /\ [][Next]_vars /\ Fairness

\* preparePayload on its own, for mails that pass validation.
RecipientValues ==
  {Undef, Str("a@x.com"), Arr(<<IStr("b@x.com"), IStr("a@x.com")>>)}
UidValues ==
  {Undef, Arr(<<IStr("u2"), IStr("u1")>>),
   Arr(<<IStr("u3"), IStr("u1"), IStr("u9"), IStr("u1")>>)}
PrepPayloads ==
  {[BasePayload EXCEPT !.to = t, !.cc = c, !.toUids = tu, !.ccUids = cu,
                       !.bccUids = bu] :
     t \in RecipientValues, c \in {Undef, Str("c@x.com")},
     tu \in UidValues, cu \in UidValues,
     bu \in {Undef, Arr(<<IStr("u3")>>)}}

InitPrep ==
  /\ doc = NoDoc
  /\ payload \in PrepPayloads
  /\ config \in Configs
  /\ now = 0
  /\ notifs = {}
  /\ inv = [i \in Invs |-> Idle]
  /\ started = 0
  /\ dups = 0
  /\ exts = 0
  /\ failing = "none"
  /\ resolved = NotPrepared

\* One call of preparePayload (line 248).
Prepare(ext) ==
  /\ resolved' = preparePayload(payload, config, ext)
  /\ UNCHANGED <<doc, payload, config, now, notifs, inv, started, dups, exts,
                 failing>>

NextPrep == \E ext \in Externals : Prepare(ext)

SpecPrep == InitPrep /\ [][NextPrep]_vars

\* The chain of notifications that follows one creation: no write by a user,
\* every notification handed over once, every awaited call returns or throws.
InitChain ==
  /\ doc = NoDoc
  /\ payload \in {Payloads[k] : k \in 1..Len(Payloads)}
  /\ config \in Configs
  /\ now = 0
  /\ notifs = {}
  /\ inv = [i \in 1..MaxChainInv |-> Idle]
  /\ started = 0
  /\ dups = 0
  /\ exts = 0
  /\ failing = "none"
  /\ resolved = NotPrepared

NextChain ==
  \/ \E d \in InitialDocs : Create(d)
  \/ Tick
  \/ \E i \in DOMAIN inv, n \in notifs : PQCreate(i, n, FALSE)
  \/ \E i \in DOMAIN inv, n \in notifs : PQTerminal(i, n, FALSE)
  \/ \E i \in DOMAIN inv, n \in notifs : PQProcessing(i, n, FALSE)
  \/ \E i \in DOMAIN inv, n \in notifs : PQAttempt(i, n, FALSE)
  \/ \E i \in DOMAIN inv, ext \in Externals : Deliver(i, ext)
  \/ \E i \in DOMAIN inv : DeliverTx(i)

FairnessChain ==
  /\ WF_vars(\E i \in DOMAIN inv, n \in notifs : PQCreate(i, n, FALSE))
  /\ WF_vars(\E i \in DOMAIN inv, n \in notifs : PQTerminal(i, n, FALSE))
  /\ WF_vars(\E i \in DOMAIN inv, n \in notifs : PQProcessing(i, n, FALSE))
  /\ WF_vars(\E i \in DOMAIN inv, n \in notifs : PQAttempt(i, n, FALSE))
  /\ WF_vars(\E i \in DOMAIN inv, ext \in Externals : Deliver(i, ext))
  /\ WF_vars(\E i \in DOMAIN inv : DeliverTx(i))

SpecChain == InitChain /\ [][NextChain]_vars /\ FairnessChain

\* The same program with an event channel on which the emission of one
\* event fails, for a mail whose preparation cannot fail.
InitEv ==
  /\ doc = NoDoc
  /\ payload = Payloads[1]
  /\ config \in Configs
  /\ now = 0
  /\ notifs = {}
  /\ inv = [i \in Invs |-> Idle]
  /\ started = 0
  /\ dups = 0
  /\ exts = 0
  /\ failing \in EventNames
  /\ resolved = NotPrepared

SpecEv == InitEv /\ [][Next]_vars

\* ------------------------------------------------------------- properties
\* Invocation i takes notification n in this step.
Handles(i, n) ==
  \E dup \in BOOLEAN :
    \/ PQNull(i, n, dup)
    \/ PQCreate(i, n, dup)
    \/ PQTerminal(i, n, dup)
    \/ PQProcessing(i, n, dup)
    \/ PQAttempt(i, n, dup)

Has(tr, item) == \E j \in 1..Len(tr) : tr[j] = item
TxCount(tr) == Cardinality({j \in 1..Len(tr) : tr[j].k = "tx"})
Sent(i) == Has(inv[i].tr, SendMail)
\* n is an update of a document whose delivery is in state st.
Update(n, st) ==
  n.before.exists /\ n.after.exists /\ n.after.hasDelivery /\ n.after.state = st

\* C1: at most one invocation performs the transport send at a time: no two
\* invocations have both called sendMail while neither has committed its
\* outcome (no user has written to the document since creating it).
C1_OneSender ==
  exts = 0 =>
    ~ \E i, j \in Invs :
        i # j /\ inv[i].pc = "commit" /\ inv[j].pc = "commit"
        /\ Sent(i) /\ Sent(j)

\* C2: an invocation that handles an update whose snapshot is PROCESSING with
\* leaseExpireTime >= now leaves the document as it is, records the
\* processing event (then completes) and does not call sendMail.
C2_LeaseHeldNoOp ==
  [][\A i \in Invs, n \in notifs :
       (Handles(i, n) /\ Update(n, "PROCESSING")
        /\ n.after.leaseExpireTime # NoTime /\ n.after.leaseExpireTime >= now)
       => /\ doc' = doc
          /\ inv'[i].pc = "done"
          /\ inv'[i].tr = <<Ev("processing", Null), Ev("complete", Null)>>]_vars

\* C2 witness: an invocation found the lease held and returned.
C2_Witness ==
  \E i \in Invs :
    inv[i].tr = <<Ev("processing", Null), Ev("complete", Null)>>

\* C3: an invocation that handles an update whose snapshot is PROCESSING with
\* leaseExpireTime < now commits state ERROR with the lease-expired message,
\* changes neither attempts nor any other delivery field, and does not call
\* sendMail (when the document is gone its transaction fails and nothing is
\* committed).
C3_LeaseExpiredIsError ==
  [][\A i \in Invs, n \in notifs :
       (Handles(i, n) /\ Update(n, "PROCESSING")
        /\ n.after.leaseExpireTime # NoTime /\ n.after.leaseExpireTime < now)
       => /\ inv'[i].pc = "done" /\ ~Has(inv'[i].tr, SendMail)
          /\ Has(inv'[i].tr, Ev("error", LeaseExpiredMsg))
          /\ IF doc.exists
             THEN doc' = [doc EXCEPT !.hasDelivery = TRUE, !.state = "ERROR",
                                     !.error = LeaseExpiredMsg,
                                     !.topError = LeaseExpiredMsg]
             ELSE doc' = doc]_vars

\* C3 witness: the lease-expiry commit was made and the document is in ERROR.
C3_Witness ==
  /\ doc.exists /\ doc.state = "ERROR" /\ doc.error = LeaseExpiredMsg
  /\ doc.attempts = 0
  /\ \E i \in Invs : Has(inv[i].tr, Tx("leaseExpired", "ERROR"))

\* C4: an invocation that handles a creation (no before-snapshot) commits
\* delivery = {startTime, state PENDING, attempts 0, error null} and nothing
\* else, whatever delivery field the document had: no lease, no sendMail.
C4_CreateIsPending ==
  [][\A i \in Invs, n \in notifs :
       (Handles(i, n) /\ ~n.before.exists /\ n.after.exists /\ doc.exists)
       => /\ doc' = [exists |-> TRUE, hasDelivery |-> TRUE, state |-> "PENDING",
                     attempts |-> 0, error |-> Null, leaseExpireTime |-> NoTime,
                     startTime |-> now, endTime |-> NoTime, info |-> NoInfo,
                     topError |-> doc.topError, rev |-> doc.rev]
          /\ inv'[i].pc = "done"
          /\ TxCount(inv'[i].tr) = 1 /\ ~Has(inv'[i].tr, SendMail)]_vars

\* C4 witness: a document created with a delivery field of its own (its
\* creation notification is still to be delivered again) was set to PENDING.
C4_Witness ==
  /\ doc.exists /\ doc.state = "PENDING" /\ doc.attempts = 0
  /\ doc.leaseExpireTime = NoTime
  /\ \E i \in Invs : Has(inv[i].tr, Tx("processCreate", "PENDING"))
  /\ \E n \in notifs : ~n.before.exists /\ n.after.state = "PROCESSING"

\* Invocation i has committed the outcome of a delivery attempt.
Delivered(i) ==
  \E j \in 1..Len(inv[i].tr) : inv[i].tr[j].k = "tx" /\ inv[i].tr[j].n = "deliver"

\* C5: deliver sets state SUCCESS (error null, info recorded) exactly when
\* sendMail was called and returned, and sendMail is called only after
\* preparation returned at least one recipient; otherwise it sets ERROR with
\* a non-null error.  Its transaction, applied to the stored document, adds 1
\* to attempts, stamps endTime, nulls leaseExpireTime and writes that state
\* and error; it is the only delivery commit of the invocation.
C5_DeliverCommit ==
  [][\A i \in Invs :
       /\ \A ext \in Externals :
            Deliver(i, ext) =>
              LET u == inv'[i].upd
                  p == preparePayload(payload, config, ext)
                  called == Len(inv'[i].tr) = Len(inv[i].tr) + 1
                            /\ inv'[i].tr[Len(inv'[i].tr)] = SendMail
              IN /\ called => p.ok /\ p.to \o p.cc \o p.bcc # <<>>
                 /\ ~p.ok => ~called
                 /\ IF called /\ ext.send # "throw"
                    THEN u.state = "SUCCESS" /\ u.error = Null /\ u.info.present
                    ELSE u.state = "ERROR" /\ u.error # Null
       /\ (inv[i].pc = "commit" /\ inv'[i].pc = "done" /\ doc.exists) =>
            /\ doc' = [doc EXCEPT
                         !.attempts = doc.attempts + 1,
                         !.endTime = now,
                         !.leaseExpireTime = NoTime,
                         !.state = inv[i].upd.state,
                         !.error = inv[i].upd.error,
                         !.info = IF inv[i].upd.state = "SUCCESS"
                                  THEN inv[i].upd.info ELSE doc.info]
            /\ Cardinality({j \in 1..Len(inv'[i].tr) :
                              inv'[i].tr[j].k = "tx"
                              /\ inv'[i].tr[j].n = "deliver"}) = 1]_vars

\* C5 witness: a RETRY snapshot was processed, sendMail threw, and the
\* document has one more attempt, state ERROR, an error and no lease.
C5_Witness ==
  /\ doc.exists /\ doc.state = "ERROR" /\ doc.attempts = 2
  /\ doc.error = "Error: send failed" /\ doc.leaseExpireTime = NoTime
  /\ \E i \in Invs :
       inv[i].tr = <<Ev("retry", Null), Tx("lease", "PROCESSING"), SendMail,
                     Tx("deliver", "ERROR"), Ev("complete", Null)>>

\* C6: once a delivery attempt has been committed, no later commit to the
\* document lowers delivery.attempts.
C6_AttemptsNeverDecrease ==
  [][(doc.exists /\ doc'.exists /\ \E i \in Invs : Delivered(i))
       => doc'.attempts >= doc.attempts]_vars

\* C7: SUCCESS and ERROR are terminal: with no write by a user and no
\* notification delivered twice, no step changes delivery.state once it is
\* SUCCESS or ERROR.
C7_TerminalStays ==
  [][(exts' = 0 /\ dups' = 0 /\ doc.exists /\ doc'.exists /\ doc.hasDelivery
      /\ doc.state \in {"SUCCESS", "ERROR"})
       => doc'.state = doc.state]_vars

\* C8: with no write by a user after creation, leaseExpireTime is non-null
\* only while delivery.state = PROCESSING.
C8_LeaseOnlyWhileProcessing ==
  (exts = 0 /\ doc.exists /\ doc.hasDelivery /\ doc.leaseExpireTime # NoTime)
    => doc.state = "PROCESSING"

\* The transactions of a trace, in order.
Txs(tr) == SelectSeq(tr, LAMBDA x : x.k = "tx")

\* C9 as stated: an invocation commits zero or one update.
C9_OneCommit == \A i \in Invs : TxCount(inv[i].tr) <= 1

\* C9 amended: an invocation commits at most two updates, each in its own
\* transaction; it commits two only as PROCESSING with the lease followed by
\* the outcome of deliver, and while it is delivering the document already
\* shows its first commit.
C9_AtMostTwoCommits ==
  \A i \in Invs :
    /\ Len(Txs(inv[i].tr)) <= 2
    /\ Len(Txs(inv[i].tr)) = 2 =>
         /\ Txs(inv[i].tr)[1] = Tx("lease", "PROCESSING")
         /\ Txs(inv[i].tr)[2].n = "deliver"
    /\ inv[i].pc \in {"deliver", "commit"} =>
         Txs(inv[i].tr) = <<Tx("lease", "PROCESSING")>>

\* C9 witness: one invocation has made both of its commits and another one
\* has seen the state in between (PROCESSING with the lease held).
C9_Witness ==
  \E i, j \in Invs :
    /\ Len(Txs(inv[i].tr)) = 2
    /\ inv[j].tr = <<Ev("processing", Null), Ev("complete", Null)>>

\* Invocation i ends in this step in the catch block of processQueue.
EndsCaught(i) ==
  /\ inv[i].pc # "done" /\ inv'[i].pc = "done"
  /\ Has(inv'[i].tr, Ev("error", UnhandledPrefix))

\* C10 as stated: an exception caught at the top of processQueue leaves the
\* document in state ERROR with the unhandled-error message.
C10_CaughtCommitsError ==
  [][\A i \in Invs :
       (EndsCaught(i) /\ doc.exists)
       => doc'.state = "ERROR" /\ doc'.error = UnhandledPrefix]_vars

\* C10 amended: an exception caught at the top of processQueue is recorded
\* as an error event with the unhandled-error message and nothing else: the
\* document is not written and no complete event follows.
C10_CaughtIsEventOnly ==
  [][\A i \in Invs :
       EndsCaught(i)
       => /\ doc' = doc
          /\ inv'[i].tr[Len(inv'[i].tr)] = Ev("error", UnhandledPrefix)
          /\ ~Has(inv'[i].tr, Ev("complete", Null))]_vars

\* C10 witness: a PROCESSING snapshot without a lease was caught, and the
\* document is still in PROCESSING.
C10_Witness ==
  /\ doc.exists /\ doc.state = "PROCESSING" /\ doc.leaseExpireTime = NoTime
  /\ \E i \in Invs :
       inv[i].tr = <<Ev("processing", Null), Ev("error", UnhandledPrefix)>>

\* C11: processQueue never rejects: whatever fails (preparation, the send, a
\* store transaction, the emission of an event), an invocation that has ended
\* has resolved.
C11_NeverRejects ==
  \A i \in Invs : inv[i].pc = "done" => ~Rejects(inv[i].tr)

\* The commits of a trace, in order, failed ones included.
Commits(tr) == SelectSeq(tr, LAMBDA x : x.k \in {"tx", "txfail"})

\* The first commit the handling of snapshot n makes when every emission
\* succeeds (none for a no-op).
FirstCommit(n) ==
  CASE Route(n) = "create" -> <<Tx("processCreate", "PENDING")>>
    [] Route(n) = "attempt" -> <<Tx("lease", "PROCESSING")>>
    [] Route(n) = "processing" /\ n.after.leaseExpireTime # NoTime
       /\ n.after.leaseExpireTime < now -> <<Tx("leaseExpired", "ERROR")>>
    [] OTHER -> <<>>

\* C15: the failure of an event emission does not change what an invocation
\* commits: handling a snapshot of a document that exists makes the commit
\* the snapshot calls for, as it does when every emission succeeds.
C15_HooksDoNotAffectCommits ==
  [][\A i \in Invs, n \in notifs :
       (Handles(i, n) /\ doc.exists) => Commits(inv'[i].tr) = FirstCommit(n)]_vars

\* Invocation i ends in this step.
Ends(i) == inv[i].pc # "done" /\ inv'[i].pc = "done"

Complete == Ev("complete", Null)

\* C12 as stated: the complete event is recorded on every exit path, the one
\* through the catch block included, except the two early no-ops (a deleted
\* document, a document without a delivery field).
C12_CompleteExceptNoOps ==
  [][\A i \in Invs :
       /\ \A n \in notifs :
            (Handles(i, n) /\ Route(n) = "null") => ~Has(inv'[i].tr, Complete)
       /\ EndsCaught(i) => Has(inv'[i].tr, Complete)]_vars

\* C12 amended: the complete event is recorded exactly when processWrite
\* returned without throwing, as the last entry of the invocation: after a
\* creation, a terminal or lease no-op, a lease-expiry commit, a delivery
\* attempt, and also after the early no-ops; an invocation that ends in the
\* catch block (a failed transaction, a PROCESSING snapshot without a lease)
\* records none.
C12_CompleteIffReturned ==
  [][\A i \in Invs :
       Ends(i) =>
         LET tr == inv'[i].tr
             threw == \/ \E j \in 1..Len(tr) : tr[j].k = "txfail"
                      \/ \E n \in notifs :
                           /\ Handles(i, n) /\ Route(n) = "processing"
                           /\ n.after.leaseExpireTime = NoTime
         IN /\ threw => ~Has(tr, Complete)
            /\ ~threw => /\ tr[Len(tr)] = Complete
                         /\ Cardinality({j \in 1..Len(tr) : tr[j] = Complete}) = 1
            /\ \A n \in notifs :
                 (Handles(i, n) /\ Route(n) = "null") => tr = <<Complete>>]_vars

\* C12 witness: one invocation handled the deletion of the document and
\* recorded the complete event; another one's transaction failed on the
\* deleted document and it recorded none.
C12_Witness ==
  /\ ~doc.exists
  /\ \E i, j \in Invs :
       /\ inv[i].tr = <<Complete>>
       /\ inv[j].pc = "done" /\ ~Has(inv[j].tr, Complete)
       /\ \E k \in 1..Len(inv[j].tr) : inv[j].tr[k].k = "txfail"

\* A recipient field is a string or an array of strings (or absent); a uid
\* field is an array of strings (or absent).
AllStrings(items) == \A j \in 1..Len(items) : items[j].t = "string"
GoodRecipients(v) ==
  v.t \in {"undefined", "string"} \/ (v.t = "array" /\ AllStrings(v.a))
GoodUids(v) == v.t = "undefined" \/ (v.t = "array" /\ AllStrings(v.a))
UsesUids(p) ==
  p.toUids.t # "undefined" \/ p.ccUids.t # "undefined"
    \/ p.bccUids.t # "undefined"

\* The mail has no recipient: no literal address, and no uid with an email.
NoRecipient(p) ==
  /\ \A f \in {p.to, p.cc, p.bcc} : f.t = "undefined" \/ f = Arr(<<>>)
  /\ \A f \in {p.toUids, p.ccUids, p.bccUids} :
       \A j \in 1..Len(f.a) : UserEmail(f.a[j].s) = ""

\* The cases in which preparation has to fail.
MustFail(p, cfg) ==
  \/ cfg.templates /\ p.template.present /\ p.template.name = ""
  \/ \E f \in {p.to, p.cc, p.bcc} : ~GoodRecipients(f)
  \/ \E f \in {p.toUids, p.ccUids, p.bccUids} : ~GoodUids(f)
  \/ UsesUids(p) /\ ~cfg.usersCollection
  \/ NoRecipient(p)

\* C13: a mail whose preparation has to fail (a template without a name, a
\* recipient or uid field that is not a string or an array of strings, uids
\* without a users collection, no recipient after resolution) is never handed
\* to sendMail, and deliver's update is ERROR with a non-null error.
C13_PreparationFailureNoSend ==
  [][\A i \in Invs, ext \in Externals :
       (Deliver(i, ext) /\ MustFail(payload, config))
       => /\ ~Has(inv'[i].tr, SendMail)
          /\ inv'[i].upd.state = "ERROR" /\ inv'[i].upd.error # Null]_vars

\* C14: the system commits state PENDING at most once for a document, at its
\* creation: at most one invocation runs processCreate's transaction, and no
\* step takes the document back to PENDING once it has left it.
C14_PendingOnce ==
  /\ Cardinality({i \in Invs :
                    Has(inv[i].tr, Tx("processCreate", "PENDING"))}) <= 1
  /\ \A i \in Invs :
       Has(inv[i].tr, Tx("processCreate", "PENDING"))
       => \A j \in Invs : Delivered(j) => doc.state # "PENDING"

\* C17: the events of an invocation follow the switch and its fallthrough.
\* A PENDING snapshot: the pending event, the retry event, the PROCESSING
\* commit, then deliver; a RETRY snapshot: the same without the pending
\* event; a SUCCESS snapshot: the success event, then an error event carrying
\* the null delivery.error, and no commit; an ERROR snapshot: the error event
\* only; the start event is recorded exactly when there is no before-snapshot.
C17_EventOrder ==
  [][\A i \in Invs :
       /\ \A n \in notifs :
            Handles(i, n) =>
              LET tr == inv'[i].tr IN
              /\ Has(tr, Ev("start", Null)) <=> ~n.before.exists
              /\ ~n.before.exists => tr[1] = Ev("start", Null)
              /\ (Update(n, "PENDING") /\ doc.exists) =>
                   /\ tr = <<Ev("pending", Null), Ev("retry", Null),
                             Tx("lease", "PROCESSING")>>
                   /\ inv'[i].pc = "deliver"
              /\ (Update(n, "RETRY") /\ doc.exists) =>
                   /\ tr = <<Ev("retry", Null), Tx("lease", "PROCESSING")>>
                   /\ inv'[i].pc = "deliver"
              /\ Update(n, "SUCCESS") =>
                   /\ tr = <<Ev("success", Null), Ev("error", Null), Complete>>
                   /\ doc' = doc
              /\ Update(n, "ERROR") =>
                   /\ tr = <<Ev("error", n.after.error), Complete>>
                   /\ doc' = doc
       /\ \A ext \in Externals :
            Deliver(i, ext) =>
              inv[i].tr[Len(inv[i].tr)] = Tx("lease", "PROCESSING")]_vars

\* C17 witness: one invocation went from a PENDING snapshot to a committed
\* SUCCESS and another one handled the SUCCESS snapshot.
C17_Witness ==
  \E i, j \in Invs :
    /\ inv[i].tr = <<Ev("pending", Null), Ev("retry", Null),
                     Tx("lease", "PROCESSING"), SendMail,
                     Tx("deliver", "SUCCESS"), Complete>>
    /\ inv[j].tr = <<Ev("success", Null), Ev("error", Null), Complete>>

\* C18: every commit of the system that sets delivery.state = PROCESSING sets
\* leaseExpireTime to the time of the commit plus 60 seconds in the same
\* update (and nothing else), and an invocation calls sendMail only after its
\* own PROCESSING commit.
C18_ProcessingWithLease ==
  [][/\ (doc.exists /\ doc' # doc /\ exts' = exts /\ doc'.state = "PROCESSING")
          => /\ doc' = [doc EXCEPT !.hasDelivery = TRUE, !.state = "PROCESSING",
                                   !.leaseExpireTime = now + LeaseMillis]
             /\ \E i \in Invs :
                  /\ inv[i].pc = "idle" /\ inv'[i].pc = "deliver"
                  /\ inv'[i].tr[Len(inv'[i].tr)] = Tx("lease", "PROCESSING")
     /\ \A i \in Invs :
          (~Sent(i) /\ Has(inv'[i].tr, SendMail))
          => Has(inv[i].tr, Tx("lease", "PROCESSING"))]_vars

\* C18 witness: a lease taken at time 60000 ends at 120000, and the
\* invocation that took it has called sendMail.
C18_Witness ==
  /\ doc.exists /\ doc.state = "PROCESSING" /\ doc.leaseExpireTime = 2 * LeaseMillis
  /\ \E i \in Invs :
       Sent(i) /\ inv[i].pc = "commit"
       /\ Has(inv[i].tr, Tx("lease", "PROCESSING"))

\* The document records a successful first attempt: SUCCESS, one attempt, no
\* error, no lease, and the info of a transport result.
Succeeded ==
  /\ doc.exists /\ doc.state = "SUCCESS" /\ doc.attempts = 1
  /\ doc.error = Null /\ doc.leaseExpireTime = NoTime
  /\ \E ext \in Externals :
       /\ ext.send # "throw"
       /\ doc.info = Info(preparePayload(payload, config, ext), ext.send)

\* C16: a created document with a literal recipient and a message reaches
\* state SUCCESS with attempts = 1, error = null, leaseExpireTime = null and
\* the transport's info, unless a user writes to it or deletes it, the
\* trigger delivers a notification twice, or the transport rejects the send.
C16_EventuallySuccess ==
  (doc.exists /\ started = 0 /\ exts = 0 /\ dups = 0)
    ~> \/ Succeeded
       \/ exts > 0 \/ dups > 0 \/ ~doc.exists
       \/ \E i \in Invs : inv[i].upd.state = "ERROR"

\* C16 witness: the document was delivered, undisturbed, and info.accepted is
\* the recipient the transport reported.
C16_Witness ==
  /\ Succeeded /\ exts = 0 /\ dups = 0
  /\ doc.info.accepted = <<IStr("a@x.com")>>
  /\ \A i \in Invs : inv[i].upd.state # "ERROR"

\* The literal addresses of a recipient field: a string is a list of one.
LiteralList(v) ==
  IF v.t = "string" THEN <<IStr(v.s)>>
  ELSE IF v.t = "array" THEN v.a ELSE <<>>

\* The emails of a uid field: for each uid that has one, in the field's
\* order, its email.
UidEmails(v) ==
  LET known == SelectSeq(v.a, LAMBDA u : UserEmail(u.s) # "")
  IN [j \in 1..Len(known) |-> IStr(UserEmail(known[j].s))]

\* The uids of a mail.
AllUids(p) ==
  UNION {{f.a[j].s : j \in 1..Len(f.a)} :
           f \in {p.toUids, p.ccUids, p.bccUids}}

\* C19: when preparation succeeds, each of to, cc and bcc is the field's
\* literal addresses followed by the emails of the field's uids in the
\* field's order, uids without an email left out; the directory is queried
\* once, for the uids of the three fields together, each once (and not at
\* all for a mail without uids).
C19_ResolutionOrdered ==
  resolved.ok =>
    /\ resolved.to = LiteralList(payload.to) \o UidEmails(payload.toUids)
    /\ resolved.cc = LiteralList(payload.cc) \o UidEmails(payload.ccUids)
    /\ resolved.bcc = LiteralList(payload.bcc) \o UidEmails(payload.bccUids)
    /\ resolved.queries = IF UsesUids(payload) THEN 1 ELSE 0
    /\ {resolved.lookup[j] : j \in 1..Len(resolved.lookup)} = AllUids(payload)
    /\ Cardinality(AllUids(payload)) = Len(resolved.lookup)

\* C19 witness: two literal addresses and the uids u3, u1, u9, u1 resolve to
\* the addresses, then u3's email and u1's twice (u9 has no document), after
\* one query.
C19_Witness ==
  /\ resolved.ok /\ resolved.queries = 1
  /\ resolved.to = <<IStr("b@x.com"), IStr("a@x.com"), IStr("u3@x.com"),
                     IStr("u1@x.com"), IStr("u1@x.com")>>
  /\ resolved.cc = <<IStr("c@x.com"), IStr("u1@x.com")>>
  /\ Len(resolved.lookup) = 4

\* The entries of kind k in the traces of all invocations.
Entries(k) ==
  UNION {{<<i, j>> : j \in {j \in 1..Len(inv[i].tr) : inv[i].tr[j].k = k}} :
           i \in DOMAIN inv}
EntriesNamed(name) == {e \in Entries("tx") : inv[e[1]].tr[e[2]].n = name}

\* Every notification was handled before the lease it shows had expired.
Timely ==
  \A i \in DOMAIN inv : ~Has(inv[i].tr, Ev("error", LeaseExpiredMsg))

\* Nothing is left to do: no notification is waiting and no invocation runs.
Quiescent ==
  /\ doc.exists /\ notifs = {}
  /\ \A i \in DOMAIN inv : inv[i].pc \in {"idle", "done"}

\* C20: after one creation (no write by a user, no notification delivered
\* twice, awaited calls return, notifications handled before the lease
\* expires) the system makes at most three commits and calls sendMail at
\* most once; the notifications of its PROCESSING and final commits cause no
\* commit; four invocations handle the whole chain; and the chain ends: the
\* system comes to rest, then with exactly three commits (PENDING, PROCESSING
\* with the lease, SUCCESS or ERROR) and the document in a terminal state.
C20_ChainTerminates ==
  /\ [](Timely =>
          /\ Cardinality(Entries("tx")) <= 3
          /\ Cardinality(Entries("send")) <= 1
          /\ started <= 4
          /\ \A i \in DOMAIN inv :
               (Has(inv[i].tr, Ev("processing", Null))
                \/ \E j \in 1..Len(inv[i].tr) :
                     inv[i].tr[j].k = "event" /\ inv[i].tr[j].n = "error")
               => TxCount(inv[i].tr) = 0
          /\ Quiescent =>
               /\ started = 4
               /\ Cardinality(EntriesNamed("processCreate")) = 1
               /\ Cardinality(EntriesNamed("lease")) = 1
               /\ Cardinality(EntriesNamed("deliver")) = 1
               /\ Cardinality(Entries("tx")) = 3
               /\ doc.state \in {"SUCCESS", "ERROR"}
               /\ doc.attempts = 1 /\ doc.leaseExpireTime = NoTime)
  /\ doc.exists ~> Quiescent

\* C20 witness: the chain of a delivered mail has ended, after a clock
\* advance that left every lease unexpired.
C20_Witness ==
  /\ Quiescent /\ Timely /\ started = 4 /\ now > 0
  /\ doc.state = "SUCCESS" /\ Cardinality(Entries("send")) = 1
  /\ \E i \in DOMAIN inv :
       inv[i].tr = <<Ev("processing", Null), Complete>>

====
